---- MODULE Spec2Model ----
(***************************************************************************)
(* Model of the meditation simulation engine                                *)
(* (src/dharma_engine/meditation.py, class MeditationEngine).               *)
(*                                                                          *)
(* Numbers.  The engine computes with Python floats.  The model keeps every *)
(* real quantity as an integer count of 1/One (fixed point, One = 1.0), and *)
(* every product with a decimal literal is an integer division that rounds  *)
(* down.  Seconds and event counters are plain integers, as in the code.    *)
(*                                                                          *)
(* Randomness.  random.random() is uniform on [0,1).  Every comparison the  *)
(* code makes against it has a right-hand side strictly between 0 and 1, so *)
(* both outcomes are possible: each draw is a nondeterministic boolean.     *)
(*                                                                          *)
(* Calls.  The engine is driven as its callers drive it (src/play.py,       *)
(* src/examples/meditation_demo.py): construction, start_session, then any  *)
(* sequence of tick, player_notice, player_return and player_adjust, then   *)
(* end_session.  `phase` records where in that protocol the engine is.      *)
(* Each action is one whole call: calls on one engine do not interleave.    *)
(*                                                                          *)
(* Spec is the engine under that protocol.  StageSpec applies end_session's *)
(* ratios, averages and _determine_stage to a grid of final statistics.     *)
(* WanderSpec follows long wanders, OverrunSpec sessions ticked past their  *)
(* duration, RestartSpec a second start_session on a used engine, and       *)
(* PartialSpec engines built from trait stores with absent keys.  RaceSpec  *)
(* is the terminal driver with its two threads, DriverSpec its main loop.   *)
(***************************************************************************)
EXTENDS Integers, Sequences, FiniteSets, TLC

VARIABLES
    seeds,              \* self.seeds: seed key -> value, or Missing
    particular,         \* self.particular: faculty key -> value, or Missing
    state,              \* self.state: MeditationState
    stats,              \* self.stats: SessionStats
    elapsed_seconds,    \* self.elapsed_seconds
    session_duration,   \* self.session_duration
    event_log,          \* self.event_log
    wander_start_time,  \* self._wander_start_time
    result,             \* value returned by the last call
    raised,             \* exception that ended the last call, or "none"
    phase,              \* "constructed" | "running" | "ended" | "restarted";
                        \* in RaceSpec also the place a tick() has reached
    interventions,      \* effective player_notice and player_adjust calls of this session
    run_seconds,        \* observer: length of the current on-object run
    longest_run,        \* observer: longest on-object run of this session
    other,              \* second set of statistics: the ones compared with
                        \* `stats` in StageSpec, the ones of the session a
                        \* second start_session abandoned in RestartSpec
    other_stage         \* stage determined for `other`

vars == <<seeds, particular, state, stats, elapsed_seconds, session_duration,
          event_log, wander_start_time, result, raised, phase,
          interventions, run_seconds, longest_run, other, other_stage>>

engine == <<seeds, particular, state, stats, elapsed_seconds, session_duration,
            event_log, wander_start_time>>

----------------------------------------------------------------------------
(* Bounds of the model *)

\* ticks plus state-changing player_notice and player_adjust calls per session
MaxCalls == 3

----------------------------------------------------------------------------
(* Fixed point *)

One == 10000
Half == One \div 2
Missing == -1

Min(a, b) == IF a < b THEN a ELSE b
Max(a, b) == IF a > b THEN a ELSE b

\* a * (num/den) for a decimal literal num/den
Times(a, num, den) == (a * num) \div den

RECURSIVE SumSeq(_)
SumSeq(s) == IF s = <<>> THEN 0 ELSE Head(s) + SumSeq(Tail(s))

RECURSIVE SumOver(_, _)
SumOver(f, S) ==
    IF S = {} THEN 0
    ELSE LET x == CHOOSE y \in S : TRUE IN f[x] + SumOver(f, S \ {x})

----------------------------------------------------------------------------
(* Static tables *)

Hindrances == {"sensual_desire", "ill_will", "sloth_torpor", "restlessness", "doubt"}

SeedKeys == Hindrances \cup
            {"mindfulness", "concentration", "diligence", "tranquility", "equanimity"}

FacultyKeys == {"chanda", "adhimoksa", "smrti", "samadhi", "prajna"}

\* FIVE_HINDRANCES: stability_damage and clarity_damage
StabilityDamage ==
    [h \in Hindrances |->
        CASE h = "sensual_desire" -> Times(One, 3, 10)
          [] h = "ill_will"       -> Times(One, 4, 10)
          [] h = "sloth_torpor"   -> Times(One, 1, 10)
          [] h = "restlessness"   -> Times(One, 5, 10)
          [] h = "doubt"          -> Times(One, 3, 10)]

ClarityDamage ==
    [h \in Hindrances |->
        CASE h = "sensual_desire" -> Times(One, 1, 10)
          [] h = "ill_will"       -> Times(One, 2, 10)
          [] h = "sloth_torpor"   -> Times(One, 5, 10)
          [] h = "restlessness"   -> Times(One, 1, 10)
          [] h = "doubt"          -> Times(One, 2, 10)]

\* NineStages in definition order; 0 stands for None (no stage achieved)
NineStages == 1 .. 9

\* STAGE_THRESHOLDS: ratios and averages in units of 1/One, counts as integers
STAGE_THRESHOLDS ==
    << [on_object_ratio |-> Times(One, 30, 100), min_continuous_seconds |-> 10],
       [on_object_ratio |-> Times(One, 40, 100), avg_recovery_time |-> 8 * One],
       [on_object_ratio |-> Times(One, 50, 100), avg_noticing_latency |-> 10 * One],
       [on_object_ratio |-> Times(One, 60, 100), avg_noticing_latency |-> 7 * One],
       [on_object_ratio |-> Times(One, 65, 100), max_oscillation |-> 5,
        restless_episodes |-> 3],
       [on_object_ratio |-> Times(One, 70, 100), clarity_ratio |-> Times(One, 60, 100)],
       [on_object_ratio |-> Times(One, 75, 100), avg_noticing_latency |-> 3 * One],
       [on_object_ratio |-> Times(One, 85, 100), clarity_ratio |-> Times(One, 80, 100)],
       [on_object_ratio |-> Times(One, 90, 100), clarity_ratio |-> Times(One, 85, 100),
        oscillation_count |-> 2] >>

----------------------------------------------------------------------------
(* Data classes *)

\* MeditationState(): active_hindrances maps each hindrance to its recorded
\* strength, or to Missing when the key is not in the dict
NewState ==
    [stability |-> Half, clarity |-> Half, on_object |-> TRUE,
     wandering_duration |-> 0, noticing_latency |-> 0,
     active_hindrances |-> [h \in Hindrances |-> Missing],
     is_dull |-> FALSE, is_restless |-> FALSE, is_wandering |-> FALSE]

\* SessionStats(duration_seconds=d): hindrance_activations.get(h, 0) is kept
\* as a total map with 0 for an absent key
NewStats(d) ==
    [duration_seconds |-> d,
     on_object_ratio |-> 0, clarity_ratio |-> 0,
     avg_noticing_latency |-> 0, avg_recovery_time |-> 0,
     oscillation_count |-> 0,
     wander_count |-> 0, return_count |-> 0,
     dull_episodes |-> 0, restless_episodes |-> 0,
     hindrance_activations |-> [h \in Hindrances |-> 0],
     on_object_time |-> 0, clarity_time |-> 0,
     noticing_latencies |-> <<>>, recovery_times |-> <<>>]

\* seeded fault: an absent key is read as 0
GetOrZero(d, key) == IF d[key] = Missing THEN 0 ELSE d[key]

\* dict.get(key, 0.5)
Get(d, key) == IF d[key] = Missing THEN Half ELSE d[key]

ActiveSet(st) == {h \in Hindrances : st.active_hindrances[h] # Missing}

\* _log: "[{elapsed_seconds}s] {msg}"
Log(log, t, msg) == Append(log, <<t, msg>>)

\* value returned by a call
Result(op, flag, value, changes, effect, events, stage) ==
    [op |-> op, flag |-> flag, value |-> value, changes |-> changes,
     effect |-> effect, events |-> events, stage |-> stage]

NoResult == Result("none", FALSE, 0, {}, "", <<>>, 0)

----------------------------------------------------------------------------
(* Baselines and hindrance pressure *)

Clamp(lo, hi, x) == Max(lo, Min(hi, x))

\* _calculate_base_stability
CalculateBaseStability(sd, pt) ==
    LET samadhi == Get(pt, "samadhi")
        smrti == Get(pt, "smrti")
        adhimoksa == Get(pt, "adhimoksa")
        restless_seed == Get(sd, "restlessness")
        base == Times(samadhi, 4, 10) + Times(smrti, 3, 10)
                + Times(adhimoksa, 2, 10) + Times(One, 1, 10)
                - Times(restless_seed, 2, 10)
    IN Clamp(Times(One, 1, 10), Times(One, 9, 10), base)

\* _calculate_base_clarity
CalculateBaseClarity(sd, pt) ==
    LET samadhi == Get(pt, "samadhi")
        prajna == Get(pt, "prajna")
        sloth_seed == Get(sd, "sloth_torpor")
        base == Times(samadhi, 3, 10) + Times(prajna, 4, 10) + Times(One, 3, 10)
                - Times(sloth_seed, 3, 10)
    IN Clamp(Times(One, 1, 10), Times(One, 9, 10), base)

\* iteration order of FIVE_HINDRANCES
HindranceOrder ==
    <<"sensual_desire", "ill_will", "sloth_torpor", "restlessness", "doubt">>

\* the local `base` of _calculate_hindrance_pressure for hindrance h at
\* elapsed time t of a session of dur seconds (dur # 0)
PressureBase(sd, pt, h, t, dur) ==
    LET fatigue_factor == Min(One, (t * One) \div dur)
        b0 == Get(sd, h)
        b1 == IF h = "sloth_torpor" THEN b0 + Times(fatigue_factor, 2, 10) ELSE b0
        b2 == IF h = "restlessness"
              THEN b1 + Times(One - fatigue_factor, 1, 10) ELSE b1
    IN b2 - Times(Get(pt, "smrti"), 2, 10)

\* pressure[hid] = max(0.0, min(1.0, base))
Pressure(base) == [h \in Hindrances |-> Clamp(0, One, base[h])]

\* base > 0.6: the hindrances for which a random draw is made
ActivationThreshold == Times(One, 6, 10)
Pressing(base) == {h \in Hindrances : base[h] > ActivationThreshold}

\* seeded fault: a hindrance that is already active is entered again
ActivatedAgain(st, base, drawn) == drawn \cap Pressing(base)

\* the hindrances newly entered into active_hindrances, given the set
\* `drawn` of hindrances whose draw came out below base * 0.1
Activated(st, base, drawn) ==
    {h \in drawn \cap Pressing(base) : st.active_hindrances[h] = Missing}

\* self.state.active_hindrances[hid] = base
RecordedStrength(base, h) == base[h]

RECURSIVE LogActivations(_, _, _, _)
LogActivations(log, t, new, i) ==
    IF i > Len(HindranceOrder) THEN log
    ELSE LogActivations(
            IF HindranceOrder[i] \in new
            THEN Log(log, t, <<"hindrance", HindranceOrder[i]>>) ELSE log,
            t, new, i + 1)

----------------------------------------------------------------------------
(* Axis update *)

AxisMin == Times(One, 10, 100)
AxisMax == Times(One, 95, 100)

\* seeded fault: the axes clamped to the documented [0, 1] instead of [0.1, 0.95]
ClampAxisUnit(x) == Max(0, Min(One, x))

\* the final "limit range" lines of _update_stability_clarity
ClampAxis(x) == Max(AxisMin, Min(AxisMax, x))

\* _update_stability_clarity
UpdateStabilityClarity(st, sd, pt, pressure) ==
    LET base_stability == CalculateBaseStability(sd, pt)
        base_clarity == CalculateBaseClarity(sd, pt)
        s1 == st.stability + Times(base_stability - st.stability, 5, 100)
        c1 == st.clarity + Times(base_clarity - st.clarity, 5, 100)
        sdmg == [h \in Hindrances |->
                    Times(Times(StabilityDamage[h], st.active_hindrances[h], One), 1, 10)]
        cdmg == [h \in Hindrances |->
                    Times(Times(ClarityDamage[h], st.active_hindrances[h], One), 1, 10)]
        s2 == s1 - SumOver(sdmg, ActiveSet(st))
        c2 == c1 - SumOver(cdmg, ActiveSet(st))
        s3 == s2 - Times(pressure["restlessness"], 5, 100)
        c3 == c2 - Times(pressure["sloth_torpor"], 5, 100)
    IN [st EXCEPT !.stability = ClampAxis(s3), !.clarity = ClampAxis(c3)]

----------------------------------------------------------------------------
(* Event detection and statistics accrual *)

DullThreshold == Times(One, 4, 10)
RestlessThreshold == Times(One, 4, 10)

\* seeded fault: dullness and restlessness present together also count
OscillationIncrementOnBoth(old_dull, old_restless, new_dull, new_restless) ==
    IF new_dull /\ new_restless THEN 1 ELSE 0

\* the number by which the two "oscillation" tests of _check_state_changes
\* raise oscillation_count
OscillationIncrement(old_dull, old_restless, new_dull, new_restless) ==
    (IF old_dull /\ new_restless THEN 1 ELSE 0)
    + (IF old_restless /\ new_dull THEN 1 ELSE 0)

\* self.state.is_dull = self.state.clarity < 0.4
IsDullNow(st) == st.clarity < DullThreshold

\* self.state.is_restless = self.state.stability < 0.4
IsRestlessNow(st) == st.stability < RestlessThreshold

\* seeded fault: an episode is counted on every tick the flag is set
RisingEdgeLevel(old, new) == new

\* `if self.state.is_dull and not old_dull`, and the same for is_restless
RisingEdge(old, new) == new /\ ~old

\* _check_state_changes at elapsed time t; `wander` is the outcome of the
\* draw random.random() < wander_prob (made only while on the object).
\* Gives the new state, statistics, log, _wander_start_time and the events.
CheckStateChanges(st, sts, log, wst, t, wander) ==
    LET leaves == st.on_object /\ wander
        st1 == IF leaves
               THEN [st EXCEPT !.on_object = FALSE, !.is_wandering = TRUE]
               ELSE st
        sts1 == IF leaves
                THEN [sts EXCEPT !.wander_count = @ + 1]
                ELSE sts
        ev1 == IF leaves THEN <<"wander">> ELSE <<>>
        log1 == IF leaves THEN Log(log, t, <<"wander">>) ELSE log
        old_dull == st.is_dull
        new_dull == IsDullNow(st1)
        dull_edge == RisingEdge(old_dull, new_dull)
        old_restless == st.is_restless
        new_restless == IsRestlessNow(st1)
        restless_edge == RisingEdge(old_restless, new_restless)
        ev2 == IF dull_edge THEN Append(ev1, "dull") ELSE ev1
        log2 == IF dull_edge THEN Log(log1, t, <<"dull">>) ELSE log1
        ev3 == IF restless_edge THEN Append(ev2, "restless") ELSE ev2
        log3 == IF restless_edge THEN Log(log2, t, <<"restless">>) ELSE log2
    IN [state |-> [st1 EXCEPT !.is_dull = new_dull, !.is_restless = new_restless],
        stats |-> [sts1 EXCEPT
                     !.dull_episodes = @ + (IF dull_edge THEN 1 ELSE 0),
                     !.restless_episodes = @ + (IF restless_edge THEN 1 ELSE 0),
                     !.oscillation_count = @ + OscillationIncrement(
                         old_dull, old_restless, new_dull, new_restless)],
        log |-> log3,
        wst |-> IF leaves THEN t ELSE wst,
        events |-> ev3]

ClarityTimeThreshold == Times(One, 5, 10)

\* seeded fault: every tick counts as a second on the object
UpdateStatsCountersAlways(st, sts) ==
    [sts EXCEPT
        !.on_object_time = @ + 1,
        !.clarity_time = @ + (IF st.clarity > ClarityTimeThreshold THEN 1 ELSE 0)]

\* _update_stats: the statistics part
UpdateStatsCounters(st, sts) ==
    [sts EXCEPT
        !.on_object_time = @ + (IF st.on_object THEN 1 ELSE 0),
        !.clarity_time = @ + (IF st.clarity > ClarityTimeThreshold THEN 1 ELSE 0)]

\* seeded fault: the duration is counted from the start of the session
UpdateWanderingDurationFromStart(st, t, wst) ==
    IF ~st.on_object THEN [st EXCEPT !.wandering_duration = t] ELSE st

\* _update_stats: the wandering-duration part
UpdateWanderingDuration(st, t, wst) ==
    IF ~st.on_object THEN [st EXCEPT !.wandering_duration = t - wst] ELSE st

----------------------------------------------------------------------------
(* tick *)

\* the body of tick() after self.elapsed_seconds += 1, for a session whose
\* duration is not zero; `drawn` and `wander` are the outcomes of the draws
TickStep(drawn, wander) ==
    LET t == elapsed_seconds + 1
        base == [h \in Hindrances |->
                    PressureBase(seeds, particular, h, t, session_duration)]
        new == Activated(state, base, drawn)
        st1 == [state EXCEPT !.active_hindrances =
                   [h \in Hindrances |->
                       IF h \in new THEN RecordedStrength(base, h) ELSE @[h]]]
        sts1 == [stats EXCEPT !.hindrance_activations =
                   [h \in Hindrances |-> IF h \in new THEN @[h] + 1 ELSE @[h]]]
        log1 == LogActivations(event_log, t, new, 1)
        st2 == UpdateStabilityClarity(st1, seeds, particular, Pressure(base))
        chk == CheckStateChanges(st2, sts1, log1, wander_start_time, t, wander)
    IN [state |-> UpdateWanderingDuration(chk.state, t, chk.wst),
        stats |-> UpdateStatsCounters(chk.state, chk.stats),
        log |-> chk.log,
        wst |-> chk.wst,
        events |-> chk.events,
        pressing |-> Pressing(base)]

\* one call of tick()
TickCall ==
    /\ phase = "running"
    /\ elapsed_seconds' = elapsed_seconds + 1
    /\ IF session_duration = 0
       THEN \* elapsed_seconds / session_duration raises ZeroDivisionError
            /\ raised' = "ZeroDivisionError"
            /\ result' = NoResult
            /\ UNCHANGED <<seeds, particular, state, stats, session_duration,
                           event_log, wander_start_time, run_seconds,
                           longest_run>>
       ELSE \E drawn \in SUBSET Hindrances,
               wander \in (IF state.on_object THEN BOOLEAN ELSE {FALSE}) :
               LET r == TickStep(drawn, wander)
                   run == IF r.state.on_object THEN run_seconds + 1 ELSE 0
               IN /\ drawn \subseteq r.pressing
                  /\ state' = r.state
                  /\ stats' = r.stats
                  /\ event_log' = r.log
                  /\ wander_start_time' = r.wst
                  /\ result' = Result("tick", TRUE, elapsed_seconds + 1, {}, "",
                                       r.events, 0)
                  /\ raised' = "none"
                  /\ run_seconds' = run
                  /\ longest_run' = Max(longest_run, run)
                  /\ UNCHANGED <<seeds, particular, session_duration>>
    /\ UNCHANGED <<phase, interventions, other, other_stage>>

\* tick() as the driver of a short session calls it
Tick ==
    /\ elapsed_seconds + interventions < MaxCalls
    /\ TickCall

----------------------------------------------------------------------------
(* player_notice *)

\* seeded fault: the middle band also takes in a latency of exactly 7
NoticeSeedChangesLateBand(latency) ==
    IF latency < 3
    THEN {<<"mindfulness", Times(One, 2, 100)>>, <<"diligence", Times(One, 1, 100)>>}
    ELSE IF latency <= 7
    THEN {<<"mindfulness", Times(One, 1, 100)>>}
    ELSE {<<"mindfulness", 0 - Times(One, 5, 1000)>>,
          <<"restlessness", Times(One, 5, 1000)>>}

\* result["seed_changes"] for a notice of the given latency (seconds)
NoticeSeedChanges(latency) ==
    IF latency < 3
    THEN {<<"mindfulness", Times(One, 2, 100)>>, <<"diligence", Times(One, 1, 100)>>}
    ELSE IF latency < 7
    THEN {<<"mindfulness", Times(One, 1, 100)>>}
    ELSE {<<"mindfulness", 0 - Times(One, 5, 1000)>>,
          <<"restlessness", Times(One, 5, 1000)>>}

\* self.seeds[seed_id] = max(0, min(1, self.seeds.get(seed_id, 0.5) + delta))
ApplySeedChanges(sd, changes) ==
    [k \in SeedKeys |->
        IF \E c \in changes : c[1] = k
        THEN LET c == CHOOSE c \in changes : c[1] = k
             IN Max(0, Min(One, Get(sd, k) + c[2]))
        ELSE sd[k]]

\* seeded fault: the body of player_notice runs whatever the state
NoticeAppliesAlways(st) == TRUE

\* seeded fault: a notice is refused once a latency above 0 is on record
NoticeAppliesUnrecorded(st) == ~st.on_object /\ st.noticing_latency = 0

\* the test that opens the body of player_notice
NoticeApplies(st) == ~st.on_object

\* one call of player_notice()
NoticeCall ==
    /\ phase = "running"
    /\ IF NoticeApplies(state)
       THEN LET latency == state.wandering_duration
                changes == NoticeSeedChanges(latency)
            IN /\ interventions' = interventions + 1
               /\ state' = [state EXCEPT !.noticing_latency = latency]
               /\ stats' = [stats EXCEPT !.noticing_latencies = Append(@, latency)]
               /\ event_log' = Log(event_log, elapsed_seconds, <<"notice", latency>>)
               /\ seeds' = ApplySeedChanges(seeds, changes)
               /\ result' = Result("player_notice", TRUE, latency, changes, "", <<>>, 0)
       ELSE /\ result' = Result("player_notice", FALSE, 0, {}, "", <<>>, 0)
            /\ UNCHANGED <<state, stats, event_log, seeds, interventions>>
    /\ raised' = "none"
    /\ UNCHANGED <<particular, elapsed_seconds, session_duration, wander_start_time,
                   phase, run_seconds, longest_run, other, other_stage>>

\* player_notice() as the driver of a short session calls it
PlayerNotice ==
    /\ NoticeApplies(state) => elapsed_seconds + interventions < MaxCalls
    /\ NoticeCall

----------------------------------------------------------------------------
(* player_return *)

ReturnBonus == Times(One, 5, 100)

\* seeded fault: the active hindrances are left as they were
ClearedHindrancesKept(active) == active

\* self.state.active_hindrances.clear()
ClearedHindrances(active) == [h \in Hindrances |-> Missing]

\* seeded fault: the wandering duration is not reset
ReturnedStateKeepsDuration(st) ==
    [st EXCEPT !.on_object = TRUE,
               !.is_wandering = FALSE,
               !.stability = @ + ReturnBonus,
               !.active_hindrances = [h \in Hindrances |-> Missing]]

\* the session state after the body of player_return
ReturnedState(st) ==
    [st EXCEPT !.on_object = TRUE,
               !.is_wandering = FALSE,
               !.wandering_duration = 0,
               !.stability = @ + ReturnBonus,
               !.active_hindrances = ClearedHindrances(@)]

\* seeded fault: the body of player_return runs whatever the state
ReturnAppliesAlways(st) == TRUE

\* the test that opens the body of player_return
ReturnApplies(st) == ~st.on_object

\* seeded fault: a successful return also rewards the mindfulness seed
ReturnCallRewarding ==
    /\ IF ReturnApplies(state)
       THEN LET recovery_time == state.wandering_duration
            IN /\ stats' = [stats EXCEPT !.recovery_times = Append(@, recovery_time),
                                         !.return_count = @ + 1]
               /\ state' = ReturnedState(state)
               /\ seeds' = ApplySeedChanges(seeds, {<<"mindfulness", Times(One, 1, 100)>>})
               /\ event_log' = Log(event_log, elapsed_seconds,
                                   <<"return", recovery_time>>)
               /\ result' = Result("player_return", TRUE, recovery_time, {}, "",
                                    <<>>, 0)
       ELSE /\ result' = Result("player_return", FALSE, 0, {}, "", <<>>, 0)
            /\ UNCHANGED <<state, stats, event_log, seeds>>
    /\ raised' = "none"
    /\ UNCHANGED <<particular, elapsed_seconds, session_duration,
                   wander_start_time, phase, interventions, run_seconds,
                   longest_run, other, other_stage>>

\* one call of player_return()
ReturnCall ==
    /\ IF ReturnApplies(state)
       THEN LET recovery_time == state.wandering_duration
            IN /\ stats' = [stats EXCEPT !.recovery_times = Append(@, recovery_time),
                                         !.return_count = @ + 1]
               /\ state' = ReturnedState(state)
               /\ event_log' = Log(event_log, elapsed_seconds,
                                   <<"return", recovery_time>>)
               /\ result' = Result("player_return", TRUE, recovery_time, {}, "",
                                    <<>>, 0)
       ELSE /\ result' = Result("player_return", FALSE, 0, {}, "", <<>>, 0)
            /\ UNCHANGED <<state, stats, event_log>>
    /\ raised' = "none"
    /\ UNCHANGED <<seeds, particular, elapsed_seconds, session_duration,
                   wander_start_time, phase, interventions, run_seconds,
                   longest_run, other, other_stage>>

\* player_return() called between two calls on the engine
PlayerReturn ==
    /\ phase = "running"
    /\ ReturnCall

----------------------------------------------------------------------------
(* player_adjust *)

AdjustGain == Times(One, 10, 100)
AdjustCost == Times(One, 3, 100)
AdjustSeedNudge == Times(One, 1, 100)

\* seeded fault: raise does not test is_dull
AdjustAppliesRaiseAlways(st, action) ==
    \/ action = "raise"
    \/ action = "relax" /\ st.is_restless

\* seeded fault: the axes are tested in place of the flags of the last tick
AdjustAppliesBelowThreshold(st, action) ==
    \/ action = "raise" /\ st.clarity < DullThreshold
    \/ action = "relax" /\ st.stability < RestlessThreshold

\* the condition under which player_adjust(action) changes the axes
AdjustApplies(st, action) ==
    \/ action = "raise" /\ st.is_dull
    \/ action = "relax" /\ st.is_restless

\* the axes after an effective player_adjust(action)
AdjustedState(st, action) ==
    IF action = "raise"
    THEN [st EXCEPT !.clarity = @ + AdjustGain, !.stability = @ - AdjustCost]
    ELSE [st EXCEPT !.stability = @ + AdjustGain, !.clarity = @ - AdjustCost]

\* seeded fault: the nudged seed is not capped at 1
AdjustedSeedsUncapped(sd, st, action) ==
    IF action = "raise" /\ st.stability < RestlessThreshold
    THEN [sd EXCEPT !["restlessness"] = Get(sd, "restlessness") + AdjustSeedNudge]
    ELSE IF action = "relax" /\ st.clarity < DullThreshold
    THEN [sd EXCEPT !["sloth_torpor"] = Get(sd, "sloth_torpor") + AdjustSeedNudge]
    ELSE sd

\* the seeds after an effective player_adjust(action) that left the session
\* in state st
AdjustedSeeds(sd, st, action) ==
    IF action = "raise" /\ st.stability < RestlessThreshold
    THEN [sd EXCEPT !["restlessness"] =
             Min(One, Get(sd, "restlessness") + AdjustSeedNudge)]
    ELSE IF action = "relax" /\ st.clarity < DullThreshold
    THEN [sd EXCEPT !["sloth_torpor"] =
             Min(One, Get(sd, "sloth_torpor") + AdjustSeedNudge)]
    ELSE sd

\* result["effect"] of player_adjust(action) when it leaves the session in st
AdjustEffect(applies, st, action) ==
    IF action = "raise"
    THEN IF ~applies THEN "raise_not_needed"
         ELSE IF st.stability < RestlessThreshold THEN "clarity_up_stability_fell"
         ELSE "clarity_up"
    ELSE IF ~applies THEN "relax_not_needed"
         ELSE IF st.clarity < DullThreshold THEN "stability_up_clarity_fell"
         ELSE "stability_up"

PlayerAdjust(action) ==
    /\ phase = "running"
    /\ IF AdjustApplies(state, action)
       THEN LET st == AdjustedState(state, action)
            IN /\ elapsed_seconds + interventions < MaxCalls
               /\ interventions' = interventions + 1
               /\ state' = st
               /\ seeds' = AdjustedSeeds(seeds, st, action)
               /\ result' = Result("player_adjust", TRUE, 0, {},
                                    AdjustEffect(TRUE, st, action), <<>>, 0)
       ELSE /\ result' = Result("player_adjust", TRUE, 0, {},
                                 AdjustEffect(FALSE, state, action), <<>>, 0)
            /\ UNCHANGED <<state, seeds, interventions>>
    /\ raised' = "none"
    /\ UNCHANGED <<particular, stats, elapsed_seconds, session_duration, event_log,
                   wander_start_time, phase, run_seconds, longest_run,
                   other, other_stage>>

----------------------------------------------------------------------------
(* end_session and stage determination *)

\* seeded fault: the recovery-time gate compares the wrong way round
GatePassedRecoveryFlipped(sts, key, threshold) ==
    CASE key = "on_object_ratio" -> ~(sts.on_object_ratio < threshold)
      [] key = "clarity_ratio" -> ~(sts.clarity_ratio < threshold)
      [] key = "avg_noticing_latency" -> ~(sts.avg_noticing_latency > threshold)
      [] key = "avg_recovery_time" -> ~(sts.avg_recovery_time < threshold)
      [] key \in {"max_oscillation", "oscillation_count"} ->
             ~(sts.oscillation_count > threshold)
      [] key = "restless_episodes" -> ~(sts.restless_episodes > threshold)
      [] OTHER -> TRUE

\* one branch of the if/elif chain of _determine_stage: TRUE unless the
\* branch for `key` sets passed = False; a key with no branch changes nothing
GatePassed(sts, key, threshold) ==
    CASE key = "on_object_ratio" -> ~(sts.on_object_ratio < threshold)
      [] key = "clarity_ratio" -> ~(sts.clarity_ratio < threshold)
      [] key = "avg_noticing_latency" -> ~(sts.avg_noticing_latency > threshold)
      [] key = "avg_recovery_time" -> ~(sts.avg_recovery_time > threshold)
      [] key \in {"max_oscillation", "oscillation_count"} ->
             ~(sts.oscillation_count > threshold)
      [] key = "restless_episodes" -> ~(sts.restless_episodes > threshold)
      [] OTHER -> TRUE

\* the value of `passed` after the inner loop over the thresholds of a stage
RankPassed(sts, k) ==
    \A key \in DOMAIN STAGE_THRESHOLDS[k] :
        GatePassed(sts, key, STAGE_THRESHOLDS[k][key])

\* seeded fault: the loop does not break at the first stage that fails
RECURSIVE StageLoopNoBreak(_, _, _)
StageLoopNoBreak(sts, k, achieved) ==
    IF k > Len(STAGE_THRESHOLDS) THEN achieved
    ELSE StageLoopNoBreak(sts, k + 1, IF RankPassed(sts, k) THEN k ELSE achieved)

\* the outer loop of _determine_stage from stage k on, `achieved` so far
RECURSIVE StageLoop(_, _, _)
StageLoop(sts, k, achieved) ==
    IF k > Len(STAGE_THRESHOLDS) THEN achieved
    ELSE IF RankPassed(sts, k) THEN StageLoop(sts, k + 1, k)
    ELSE achieved

\* _determine_stage: the stage achieved, 0 for None
DetermineStage(sts) == StageLoop(sts, 1, 0)

\* seeded fault: a session of zero elapsed seconds gets both ratios as 1
FinalStatsEmptyAsFull(sts, elapsed) ==
    [sts EXCEPT
        !.on_object_ratio =
            IF elapsed = 0 THEN One ELSE (sts.on_object_time * One) \div elapsed,
        !.clarity_ratio =
            IF elapsed = 0 THEN One ELSE (sts.clarity_time * One) \div elapsed,
        !.avg_noticing_latency =
            IF sts.noticing_latencies # <<>>
            THEN (SumSeq(sts.noticing_latencies) * One)
                     \div Len(sts.noticing_latencies)
            ELSE @,
        !.avg_recovery_time =
            IF sts.recovery_times # <<>>
            THEN (SumSeq(sts.recovery_times) * One) \div Len(sts.recovery_times)
            ELSE @]

\* the ratios and averages end_session stores into self.stats, in units of
\* 1/One rounded down.  The thresholds they are compared with are whole
\* multiples of 1/One, and times, latencies and list lengths are integers far
\* below One, so every comparison in GatePassed comes out as on the exact
\* quotient.
FinalStats(sts, elapsed) ==
    LET total == IF elapsed = 0 THEN 1 ELSE elapsed
    IN [sts EXCEPT
          !.on_object_ratio = (sts.on_object_time * One) \div total,
          !.clarity_ratio = (sts.clarity_time * One) \div total,
          !.avg_noticing_latency =
              IF sts.noticing_latencies # <<>>
              THEN (SumSeq(sts.noticing_latencies) * One)
                       \div Len(sts.noticing_latencies)
              ELSE @,
          !.avg_recovery_time =
              IF sts.recovery_times # <<>>
              THEN (SumSeq(sts.recovery_times) * One) \div Len(sts.recovery_times)
              ELSE @]

EndSession ==
    /\ phase = "running"
    /\ LET final == FinalStats(stats, elapsed_seconds)
       IN /\ stats' = final
          /\ result' = Result("end_session", TRUE, elapsed_seconds, {}, "", <<>>,
                               DetermineStage(final))
    /\ event_log' = Log(event_log, elapsed_seconds, <<"end">>)
    /\ phase' = "ended"
    /\ raised' = "none"
    /\ UNCHANGED <<seeds, particular, state, elapsed_seconds, session_duration,
                   wander_start_time, interventions, run_seconds, longest_run,
                   other, other_stage>>

----------------------------------------------------------------------------
(* start_session *)

DurationMinutes == {0, 1}

\* seeded fault: self.state is kept and only its two axes are set anew
SessionStartStateKept(st, sd, pt) ==
    [st EXCEPT !.stability = CalculateBaseStability(sd, pt),
               !.clarity = CalculateBaseClarity(sd, pt)]

\* self.state after start_session: a new MeditationState() with the two
\* baselines; the state st the engine was in is dropped
SessionStartState(st, sd, pt) ==
    [NewState EXCEPT !.stability = CalculateBaseStability(sd, pt),
                     !.clarity = CalculateBaseClarity(sd, pt)]

\* one call of start_session(duration_minutes)
StartCall(duration_minutes) ==
    /\ session_duration' = duration_minutes * 60
    /\ elapsed_seconds' = 0
    /\ state' = SessionStartState(state, seeds, particular)
    /\ stats' = NewStats(duration_minutes * 60)
    /\ event_log' = Log(<<>>, 0, <<"start">>)
    /\ wander_start_time' = 0
    /\ result' = NoResult
    /\ raised' = "none"
    /\ UNCHANGED <<seeds, particular>>

\* the first start_session on a new engine
StartSession(duration_minutes) ==
    /\ phase = "constructed"
    /\ StartCall(duration_minutes)
    /\ phase' = "running"
    /\ interventions' = 0
    /\ run_seconds' = 0
    /\ longest_run' = 0
    /\ UNCHANGED <<other, other_stage>>

----------------------------------------------------------------------------
(* The engine: construction and the calls a driver makes *)

\* the default seed bank and faculties of __init__
DefaultSeeds == [k \in SeedKeys |-> Half]
DefaultParticular == [k \in FacultyKeys |-> Half]

\* the trait stores a caller constructs the engine with: the defaults; a
\* partial seed mapping that holds only two strong hindrance seeds, with
\* every faculty at 0; every hindrance seed at 0 with every faculty at 1
TraitStores ==
    { [seeds |-> DefaultSeeds, particular |-> DefaultParticular],
      [seeds |-> [k \in SeedKeys |->
                     IF k \in {"sloth_torpor", "restlessness"} THEN One ELSE Missing],
       particular |-> [k \in FacultyKeys |-> 0]],
      [seeds |-> [k \in SeedKeys |-> IF k \in Hindrances THEN 0 ELSE Half],
       particular |-> [k \in FacultyKeys |-> One]] }

\* the engine as __init__ leaves it for the given seed bank and faculties
Constructed(seed_bank, faculties) ==
    /\ seeds = seed_bank
    /\ particular = faculties
    /\ state = NewState
    /\ stats = NewStats(0)
    /\ elapsed_seconds = 0
    /\ session_duration = 600
    /\ event_log = <<>>
    /\ wander_start_time = 0
    /\ result = NoResult
    /\ raised = "none"
    /\ phase = "constructed"
    /\ interventions = 0
    /\ run_seconds = 0
    /\ longest_run = 0
    /\ other = NewStats(0)
    /\ other_stage = 0

Init == \E ts \in TraitStores : Constructed(ts.seeds, ts.particular)

Next ==
    \/ \E m \in DurationMinutes : StartSession(m)
    \/ Tick
    \/ PlayerNotice
    \/ PlayerReturn
    \/ \E a \in {"raise", "relax"} : PlayerAdjust(a)
    \/ EndSession

Spec == Init /\ [][Next]_vars

----------------------------------------------------------------------------
(* Stage determination over arbitrary final statistics *)

\* length in seconds of the sessions whose statistics are judged
ProbeElapsed == 10

ProbeOnObjectTimes == {k \in 0 .. ProbeElapsed : k % 2 = 0}
ProbeClarityTimes == {k \in ProbeOnObjectTimes : k = 0 \/ 2 * k > ProbeElapsed}
ProbeLatencies == {<<>>, <<5>>, <<7, 9>>, <<12>>}
ProbeRecoveries == {<<>>, <<3, 15>>}
ProbeOscillations == {0, 3, 6}
ProbeRestless == {0, 4}

\* statistics as a session of ProbeElapsed ticks can leave them for end_session
ProbeStats ==
    { [NewStats(60) EXCEPT
          !.on_object_time = a, !.clarity_time = c,
          !.noticing_latencies = l, !.recovery_times = r,
          !.oscillation_count = o, !.restless_episodes = e,
          !.wander_count = Len(r), !.return_count = Len(r)] :
      a \in ProbeOnObjectTimes, c \in ProbeClarityTimes, l \in ProbeLatencies,
      r \in ProbeRecoveries, o \in ProbeOscillations, e \in ProbeRestless }

\* A's final statistics are at least as good as B's on every gate direction
Dominates(A, B) ==
    /\ A.on_object_ratio >= B.on_object_ratio
    /\ A.clarity_ratio >= B.clarity_ratio
    /\ A.avg_noticing_latency <= B.avg_noticing_latency
    /\ A.avg_recovery_time <= B.avg_recovery_time
    /\ A.oscillation_count <= B.oscillation_count
    /\ A.restless_episodes <= B.restless_episodes

StageInit ==
    /\ seeds = DefaultSeeds
    /\ particular = DefaultParticular
    /\ state = NewState
    /\ stats \in ProbeStats
    /\ elapsed_seconds = ProbeElapsed
    /\ session_duration = 60
    /\ event_log = <<>>
    /\ wander_start_time = 0
    /\ result = NoResult
    /\ raised = "none"
    /\ phase = "probe"
    /\ interventions = 0
    /\ run_seconds = 0
    /\ longest_run = 0
    /\ other = NewStats(60)
    /\ other_stage = 0

\* end_session's ratios, averages and stage for the session's statistics and
\* for a second set of statistics that the first dominates
JudgePair ==
    /\ phase = "probe"
    /\ \E b \in ProbeStats :
          LET final == FinalStats(stats, elapsed_seconds)
              final_other == FinalStats(b, elapsed_seconds)
          IN /\ Dominates(final, final_other)
             /\ stats' = final
             /\ other' = final_other
             /\ result' = Result("end_session", TRUE, elapsed_seconds, {}, "", <<>>,
                                  DetermineStage(final))
             /\ other_stage' = DetermineStage(final_other)
    /\ phase' = "judged"
    /\ UNCHANGED <<seeds, particular, state, elapsed_seconds, session_duration,
                   event_log, wander_start_time, raised, interventions,
                   run_seconds, longest_run>>

StageNext == JudgePair

StageSpec == StageInit /\ [][StageNext]_vars

----------------------------------------------------------------------------
(* A session in which the meditator wanders and is slow to notice *)

\* ticks of the session that are followed
MaxWanderTicks == 11
\* effective player_notice() calls of the session that are followed
MaxNotices == 2

\* seed banks for these sessions: the defaults, every hindrance seed at 0,
\* and the mindfulness seed at either end of its range
WanderSeeds ==
    { DefaultSeeds,
      [k \in SeedKeys |-> IF k \in Hindrances THEN 0 ELSE Half],
      [DefaultSeeds EXCEPT !["mindfulness"] = One],
      [DefaultSeeds EXCEPT !["mindfulness"] = 0] }

WanderInit == \E sd \in WanderSeeds : Constructed(sd, DefaultParticular)

WanderTick ==
    /\ elapsed_seconds < MaxWanderTicks
    /\ TickCall

WanderNotice ==
    /\ NoticeApplies(state) => interventions < MaxNotices
    /\ NoticeCall

WanderNext ==
    \/ \E m \in DurationMinutes : StartSession(m)
    \/ WanderTick
    \/ WanderNotice

WanderSpec == WanderInit /\ [][WanderNext]_vars

----------------------------------------------------------------------------
(* A second start_session on an engine that is in a session or has ended one *)

\* start_session called again; `other` keeps the statistics of the session
\* it abandons, and the session it begins is not followed further
Restart(duration_minutes) ==
    /\ phase \in {"running", "ended"}
    /\ StartCall(duration_minutes)
    /\ phase' = "restarted"
    /\ other' = stats
    /\ UNCHANGED <<interventions, run_seconds, longest_run, other_stage>>

RestartNext ==
    \/ Next
    \/ \E m \in DurationMinutes : Restart(m)

RestartSpec == Init /\ [][RestartNext]_vars

----------------------------------------------------------------------------
(* Engines constructed from trait stores that lack keys *)

\* the mapping that holds just the given keys, each with the given value
Holding(keys, present, value) ==
    [k \in keys |-> IF k \in present THEN value ELSE Missing]

\* non-empty seed banks and faculty mappings with absent keys; between them
\* every key the engine reads or writes is absent from at least one
PartialStores ==
    { [seeds |-> Holding(SeedKeys, {"mindfulness"}, One),
       particular |-> Holding(FacultyKeys, {"chanda"}, One)],
      [seeds |-> Holding(SeedKeys, {"sloth_torpor"}, One),
       particular |-> Holding(FacultyKeys, {"smrti", "samadhi"}, 0)],
      [seeds |-> Holding(SeedKeys, {"restlessness", "diligence"}, 0),
       particular |-> Holding(FacultyKeys, {"prajna", "adhimoksa"}, One)],
      [seeds |-> Holding(SeedKeys, Hindrances, Half),
       particular |-> Holding(FacultyKeys, {"smrti", "samadhi"}, One)] }

PartialInit == \E ts \in PartialStores : Constructed(ts.seeds, ts.particular)

PartialSpec == PartialInit /\ [][Next]_vars

----------------------------------------------------------------------------
(* Sessions that begin just below the dull or the restless threshold *)

\* a strong sloth seed against full prajna (clarity baseline 0.4), and the
\* default seeds with samadhi 0.5 and full adhimoksa (stability baseline 0.4)
ThresholdStores ==
    { [seeds |-> [DefaultSeeds EXCEPT !["sloth_torpor"] = One],
       particular |-> [k \in FacultyKeys |-> IF k = "prajna" THEN One ELSE 0]],
      [seeds |-> DefaultSeeds,
       particular |-> [k \in FacultyKeys |->
                          IF k = "adhimoksa" THEN One
                          ELSE IF k = "samadhi" THEN Half ELSE 0]] }

AdjustInit == \E ts \in ThresholdStores : Constructed(ts.seeds, ts.particular)

AdjustSpec == AdjustInit /\ [][Next]_vars

----------------------------------------------------------------------------
(* The terminal driver: tick() in the main loop, player_return() in the     *)
(* input thread, on one engine and with no lock (src/play.py).  A thread    *)
(* switch can fall between any two bytecodes of tick().  Two places are     *)
(* followed: inside the loop of _update_stability_clarity over              *)
(* active_hindrances, once its first item is fetched ("tick_loop"), and in  *)
(* _update_stats between the test `not self.state.on_object` and the        *)
(* assignment it guards ("tick_stats").  "tick_axes" is a tick about to run *)
(* that loop over an empty dict.                                            *)

\* ticks of the session that are followed
MaxRaceTicks == 3

\* x += (base - x) * 0.05
AxisRegression(x, base) == x + Times(base - x, 5, 100)

\* tick(): self.elapsed_seconds += 1 and _calculate_hindrance_pressure
RaceTickPressure ==
    /\ phase = "running"
    /\ elapsed_seconds < MaxRaceTicks
    /\ \E drawn \in SUBSET Hindrances :
          LET t == elapsed_seconds + 1
              base == [h \in Hindrances |->
                          PressureBase(seeds, particular, h, t, session_duration)]
              new == Activated(state, base, drawn)
              st1 == [state EXCEPT !.active_hindrances =
                         [h \in Hindrances |->
                             IF h \in new THEN RecordedStrength(base, h) ELSE @[h]]]
          IN /\ drawn \subseteq Pressing(base)
             /\ elapsed_seconds' = t
             /\ state' = st1
             /\ stats' = [stats EXCEPT !.hindrance_activations =
                             [h \in Hindrances |->
                                 IF h \in new THEN @[h] + 1 ELSE @[h]]]
             /\ event_log' = LogActivations(event_log, t, new, 1)
             /\ phase' = IF ActiveSet(st1) # {} THEN "tick_loop" ELSE "tick_axes"
    /\ result' = NoResult
    /\ raised' = "none"
    /\ UNCHANGED <<seeds, particular, session_duration, wander_start_time,
                   interventions, run_seconds, longest_run, other, other_stage>>

\* tick(): _update_stability_clarity, _check_state_changes and _update_stats
\* up to the test of on_object.  A player_return() that cleared
\* active_hindrances inside the loop makes the loop raise RuntimeError
\* (dictionary changed size during iteration), which ends run().
RaceTickAxes ==
    /\ phase \in {"tick_loop", "tick_axes"}
    /\ IF phase = "tick_loop" /\ result.op = "player_return" /\ result.flag
       THEN /\ raised' = "RuntimeError"
            /\ state' = [state EXCEPT
                  !.stability =
                      AxisRegression(@ - ReturnBonus,
                                     CalculateBaseStability(seeds, particular))
                      + ReturnBonus,
                  !.clarity =
                      AxisRegression(@, CalculateBaseClarity(seeds, particular))]
            /\ phase' = "crashed"
            /\ result' = NoResult
            /\ UNCHANGED <<stats, event_log, wander_start_time>>
       ELSE \E wander \in (IF state.on_object THEN BOOLEAN ELSE {FALSE}) :
               LET t == elapsed_seconds
                   base == [h \in Hindrances |->
                               PressureBase(seeds, particular, h, t, session_duration)]
                   st2 == UpdateStabilityClarity(state, seeds, particular,
                                                 Pressure(base))
                   chk == CheckStateChanges(st2, stats, event_log,
                                            wander_start_time, t, wander)
               IN /\ state' = chk.state
                  /\ stats' = UpdateStatsCounters(chk.state, chk.stats)
                  /\ event_log' = chk.log
                  /\ wander_start_time' = chk.wst
                  /\ raised' = "none"
                  /\ IF chk.state.on_object
                     THEN /\ phase' = "running"
                          /\ result' = Result("tick", TRUE, t, {}, "", chk.events, 0)
                     ELSE /\ phase' = "tick_stats"
                          /\ result' = NoResult
    /\ UNCHANGED <<seeds, particular, elapsed_seconds, session_duration,
                   interventions, run_seconds, longest_run, other, other_stage>>

\* tick(): the assignment to wandering_duration in _update_stats, and return
RaceTickDuration ==
    /\ phase = "tick_stats"
    /\ state' = [state EXCEPT
                    !.wandering_duration = elapsed_seconds - wander_start_time]
    /\ result' = Result("tick", TRUE, elapsed_seconds, {}, "", <<>>, 0)
    /\ raised' = "none"
    /\ phase' = "running"
    /\ UNCHANGED <<seeds, particular, stats, elapsed_seconds, session_duration,
                   event_log, wander_start_time, interventions, run_seconds,
                   longest_run, other, other_stage>>

\* the input thread's player_return(), wherever the main loop is
InputReturn ==
    /\ phase \in {"running", "tick_loop", "tick_axes", "tick_stats"}
    /\ ReturnCall

RaceNext ==
    \/ StartSession(1)
    \/ RaceTickPressure
    \/ RaceTickAxes
    \/ RaceTickDuration
    \/ InputReturn

RaceSpec == Init /\ [][RaceNext]_vars

----------------------------------------------------------------------------
(* A session that is ticked up to its duration and past it *)

\* ticks past the session's duration that are followed
MaxOverrun == 1

OverrunTick ==
    /\ elapsed_seconds < session_duration + MaxOverrun
    /\ TickCall

OverrunNext ==
    \/ \E m \in DurationMinutes : StartSession(m)
    \/ OverrunTick
    \/ EndSession

OverrunSpec == WanderInit /\ [][OverrunNext]_vars

----------------------------------------------------------------------------
(* The main loop of the terminal driver (MeditationGame.run): start_session, *)
(* tick() once a second while the game is running and the duration has not  *)
(* elapsed, then end_session.  The player's `q` and Ctrl-C end the loop      *)
(* after any tick.                                                           *)

\* seeded fault: the loop tests elapsed_seconds <= session_duration
DriverTickOffByOne ==
    /\ elapsed_seconds <= session_duration
    /\ TickCall

\* while self.running and elapsed_seconds < session_duration: tick()
DriverTick ==
    /\ elapsed_seconds < session_duration
    /\ TickCall

DriverNext ==
    \/ \E m \in DurationMinutes : StartSession(m)
    \/ DriverTick
    \/ EndSession

DriverSpec == WanderInit /\ [][DriverNext]_vars

----------------------------------------------------------------------------
(* Properties *)

InAxisRange(x) == AxisMin <= x /\ x <= AxisMax

\* C1: immediately after every tick(), whatever ticks and interventions came
\* before, 0.1 <= stability <= 0.95 and 0.1 <= clarity <= 0.95.
C1_AxisBoundsAfterTick ==
    result.op = "tick" =>
        InAxisRange(state.stability) /\ InAxisRange(state.clarity)

\* a tick that follows an intervention and ends with stability on the floor
C1_Witness ==
    /\ result.op = "tick"
    /\ interventions >= 1
    /\ state.stability = AxisMin

\* C2: after any successful player_return() or player_adjust(), stability and
\* clarity are both within [0.1, 0.95].
C2_InterventionsClamped ==
    (\/ result.op = "player_return" /\ result.flag
     \/ result.op = "player_adjust")
    => InAxisRange(state.stability) /\ InAxisRange(state.clarity)

\* C3: in every reachable state, on_object implies wandering_duration = 0.
C3_OnObjectNoWandering ==
    state.on_object => state.wandering_duration = 0

\* a return that ended a wander of at least one second
C3_Witness ==
    /\ result.op = "player_return"
    /\ result.flag
    /\ result.value >= 1
    /\ state.on_object

\* C4: after any successful player_return(), active_hindrances is empty.
C4_ReturnClearsHindrances ==
    (result.op = "player_return" /\ result.flag) => ActiveSet(state) = {}

\* the first return of a session in which two hindrances had become active
C4_Witness ==
    /\ result.op = "player_return"
    /\ result.flag
    /\ stats.return_count = 1
    /\ Cardinality({h \in Hindrances : stats.hindrance_activations[h] > 0}) >= 2

\* C5: player_notice() or player_return() called while on_object is true
\* returns noticed = false / returned = false and changes no engine state.
C5_NoOpWhileOnObject ==
    [][(result'.op \in {"player_notice", "player_return"} /\ state.on_object)
       => (~result'.flag /\ UNCHANGED engine)]_vars

\* a refused notice or return in a session that has wandered and returned
C5_Witness ==
    /\ result.op \in {"player_notice", "player_return"}
    /\ ~result.flag
    /\ state.on_object
    /\ stats.return_count >= 1

RaiseEffects == {"raise_not_needed", "clarity_up", "clarity_up_stability_fell"}
RelaxEffects == {"relax_not_needed", "stability_up", "stability_up_clarity_fell"}

\* C6: player_adjust("raise") while is_dull is false, and
\* player_adjust("relax") while is_restless is false, leave stability,
\* clarity and every seed unchanged.
C6_AdjustNoOp ==
    [][(/\ result'.op = "player_adjust"
        /\ \/ result'.effect \in RaiseEffects /\ ~state.is_dull
           \/ result'.effect \in RelaxEffects /\ ~state.is_restless)
       => (/\ state'.stability = state.stability
           /\ state'.clarity = state.clarity
           /\ seeds' = seeds)]_vars

\* a raise refused in a session that is restless but not dull
C6_Witness ==
    /\ result.op = "player_adjust"
    /\ result.effect = "raise_not_needed"
    /\ state.is_restless
    /\ ~state.is_dull

\* the first stage whose gates fail, one past the last stage when none does
FirstFailingRank(sts) ==
    IF \A k \in NineStages : RankPassed(sts, k)
    THEN Len(STAGE_THRESHOLDS) + 1
    ELSE CHOOSE j \in NineStages :
            /\ ~RankPassed(sts, j)
            /\ \A i \in 1 .. (j - 1) : RankPassed(sts, i)

\* C7: the awarded stage is the rank just below the first rank whose gates
\* fail (none when rank 1 fails), even when a higher rank would pass.
C7_LadderStopsAtFirstFailure ==
    phase = "judged" =>
        /\ result.stage = FirstFailingRank(stats) - 1
        /\ other_stage = FirstFailingRank(other) - 1

\* statistics that fail rank 3 and pass rank 5 on its own, judged rank 2
C7_Witness ==
    /\ phase = "judged"
    /\ ~RankPassed(stats, 3)
    /\ RankPassed(stats, 5)
    /\ result.stage = 2

\* C8: if A's final statistics dominate B's on every gate direction, the
\* stage awarded to A is the same as or higher than the stage awarded to B.
C8_StageMonotone ==
    (phase = "judged" /\ Dominates(stats, other)) => result.stage >= other_stage

\* a pair in which the better statistics reach a strictly higher stage
C8_Witness ==
    /\ phase = "judged"
    /\ Dominates(stats, other)
    /\ stats # other
    /\ result.stage > other_stage
    /\ other_stage >= 1

\* C9: rank 1 is awarded only when its min_continuous_seconds gate is
\* satisfied as well, that is, only to a session with an unbroken on-object
\* run of at least that many seconds.
C9_RankOneNeedsContinuousRun ==
    (phase = "ended" /\ result.stage >= 1)
    => longest_run >= STAGE_THRESHOLDS[1].min_continuous_seconds

\* C10: a tick changes oscillation_count only if the session was dull and
\* not restless before it and is restless after it, or was restless and not
\* dull before it and is dull after it.
C10_OscillationCountsTransitions ==
    [][stats'.oscillation_count # stats.oscillation_count
       => (\/ state.is_dull /\ ~state.is_restless /\ state'.is_restless
           \/ state.is_restless /\ ~state.is_dull /\ state'.is_dull)]_vars

\* the clamp player_notice puts on a seed it changes
ClampSeed(x) == Max(0, Min(One, x))

\* C11: the mindfulness delta of a successful player_notice() depends only on
\* the latency band and does not increase with latency: +0.02 (and diligence
\* +0.01) for latency < 3, +0.01 for 3 <= latency < 7, -0.005 (and
\* restlessness +0.005) for latency >= 7; the deltas are reported as such and
\* added to the seeds within [0, 1], and no other seed changes.
C11_NoticeDeltaByBand ==
    [][(result'.op = "player_notice" /\ result'.flag)
       => LET latency == state.wandering_duration
              Granted(k, delta) ==
                  /\ <<k, delta>> \in result'.changes
                  /\ seeds'[k] = ClampSeed(Get(seeds, k) + delta)
              Only(keys) ==
                  /\ {c[1] : c \in result'.changes} = keys
                  /\ \A k \in SeedKeys \ keys : seeds'[k] = seeds[k]
          IN /\ latency < 3 =>
                   /\ Granted("mindfulness", (2 * One) \div 100)
                   /\ Granted("diligence", One \div 100)
                   /\ Only({"mindfulness", "diligence"})
             /\ (3 <= latency /\ latency < 7) =>
                   /\ Granted("mindfulness", One \div 100)
                   /\ Only({"mindfulness"})
             /\ latency >= 7 =>
                   /\ Granted("mindfulness", 0 - (5 * One) \div 1000)
                   /\ Granted("restlessness", (5 * One) \div 1000)
                   /\ Only({"mindfulness", "restlessness"})]_vars

\* a notice at latency 10 in a wander that was first noticed at latency 2
C11_Witness ==
    /\ result.op = "player_notice"
    /\ result.flag
    /\ stats.noticing_latencies = <<2, 10>>

\* C12: with every seed of the seed bank in [0, 1] at construction, every
\* seed is in [0, 1] after any sequence of tick, player_notice, player_return
\* and player_adjust calls.
C12_SeedsInUnitRange ==
    \A k \in SeedKeys : seeds[k] # Missing => (0 <= seeds[k] /\ seeds[k] <= One)

\* an overdone raise whose nudge met a restlessness seed already at 1
C12_Witness ==
    /\ result.op = "player_adjust"
    /\ result.effect = "clarity_up_stability_fell"
    /\ seeds["restlessness"] = One

\* C13: a tick() called once elapsed_seconds >= session_duration does not
\* advance elapsed_seconds, so in a session of positive duration
\* elapsed_seconds never exceeds session_duration.
C13_NoTickPastDuration ==
    (phase = "running" /\ session_duration > 0)
    => elapsed_seconds <= session_duration

\* C14: after start_session with a non-positive duration no tick() fails
\* with an unhandled error: no call of the engine ever raises.
C14_NoUnhandledError ==
    raised = "none"

\* C15: end_session() called with zero elapsed ticks raises no error and
\* reports on_object_ratio = 0, clarity_ratio = 0, average noticing latency
\* and recovery time 0, and no stage achieved.
C15_EmptySessionEnds ==
    (phase = "ended" /\ elapsed_seconds = 0)
    => /\ raised = "none"
       /\ result.op = "end_session"
       /\ stats.on_object_ratio = 0
       /\ stats.clarity_ratio = 0
       /\ stats.avg_noticing_latency = 0
       /\ stats.avg_recovery_time = 0
       /\ result.stage = 0

\* a session of positive duration ended directly after start_session
C15_Witness ==
    /\ phase = "ended"
    /\ elapsed_seconds = 0
    /\ session_duration > 0
    /\ event_log = <<<<0, <<"start">>>>, <<0, <<"end">>>>>>

\* C16: while the session is off-object, every tick adds exactly one to
\* wandering_duration, which is 0 after the tick on which the wander begins;
\* player_notice() and player_adjust() leave it as it is.
C16_WanderingDurationGrows ==
    [][/\ (result'.op = "tick" /\ ~state.on_object)
          => (/\ ~state'.on_object
              /\ state'.wandering_duration = state.wandering_duration + 1)
       /\ (result'.op = "tick" /\ state.on_object /\ ~state'.on_object)
          => state'.wandering_duration = 0
       /\ result'.op \in {"player_notice", "player_adjust"}
          => state'.wandering_duration = state.wandering_duration]_vars

\* a tick that took a wander noticed at its onset to a duration of one second
C16_Witness ==
    /\ result.op = "tick"
    /\ ~state.on_object
    /\ state.wandering_duration = 1
    /\ stats.noticing_latencies = <<0>>

\* C17: every strength recorded in active_hindrances lies in (0.6, 1]: the
\* pressure is clamped to [0, 1] before it is used for activation.
C17_StrengthInUnitRange ==
    \A h \in ActiveSet(state) :
        /\ state.active_hindrances[h] > ActivationThreshold
        /\ state.active_hindrances[h] <= One

\* C19: start_session() called in any reachable state resets all per-session
\* state: elapsed_seconds = 0, on_object true, wandering_duration = 0, no
\* active hindrance, is_dull and is_restless false, every counter and list
\* of the statistics zero or empty, the event log holding only the start
\* entry, stability and clarity equal to the baselines of the current
\* faculties and seeds, within [0.1, 0.9]; seeds and faculties are unchanged.
C19_StartSessionResets ==
    [][phase' = "restarted"
       => /\ elapsed_seconds' = 0
          /\ state'.on_object
          /\ ~state'.is_wandering
          /\ state'.wandering_duration = 0
          /\ state'.noticing_latency = 0
          /\ ActiveSet(state') = {}
          /\ ~state'.is_dull
          /\ ~state'.is_restless
          /\ stats'.duration_seconds = session_duration'
          /\ \A f \in {"on_object_ratio", "clarity_ratio", "avg_noticing_latency",
                        "avg_recovery_time", "oscillation_count", "wander_count",
                        "return_count", "dull_episodes", "restless_episodes",
                        "on_object_time", "clarity_time"} : stats'[f] = 0
          /\ \A h \in Hindrances : stats'.hindrance_activations[h] = 0
          /\ stats'.noticing_latencies = <<>>
          /\ stats'.recovery_times = <<>>
          /\ event_log' = <<<<0, <<"start">>>>>>
          /\ state'.stability = CalculateBaseStability(seeds, particular)
          /\ state'.clarity = CalculateBaseClarity(seeds, particular)
          /\ One \div 10 <= state'.stability /\ state'.stability <= (9 * One) \div 10
          /\ One \div 10 <= state'.clarity /\ state'.clarity <= (9 * One) \div 10
          /\ seeds' = seeds
          /\ particular' = particular]_vars

\* a restart that abandoned a session in mid-wander, with a hindrance active,
\* a dull episode begun, a notice recorded and a seed already changed
C19_Witness ==
    /\ phase = "restarted"
    /\ other.wander_count > other.return_count
    /\ other.return_count = 0
    /\ \E h \in Hindrances : other.hindrance_activations[h] > 0
    /\ other.dull_episodes >= 1
    /\ other.noticing_latencies # <<>>
    /\ Get(seeds, "mindfulness") > Half

\* the mapping d with 0.5 written in for every absent key
Filled(d) == [k \in DOMAIN d |-> IF d[k] = Missing THEN Half ELSE d[k]]

\* C20: a seed or faculty key absent from the caller's mapping is read as
\* 0.5 and causes no failure: the baselines and the hindrance pressures are
\* those of the mapping with 0.5 filled in, no call raises (a session of zero
\* duration aside), and a seed delta applied to an absent key leaves that
\* key at 0.5 + delta.
C20_AbsentKeyReadsAsHalf ==
    [][/\ (phase = "constructed" /\ phase' = "running")
          => /\ state'.stability =
                    CalculateBaseStability(Filled(seeds), Filled(particular))
             /\ state'.clarity =
                    CalculateBaseClarity(Filled(seeds), Filled(particular))
       /\ (result'.op = "tick")
          => \A h \in Hindrances :
                PressureBase(seeds, particular, h, elapsed_seconds', session_duration)
                = PressureBase(Filled(seeds), Filled(particular), h,
                               elapsed_seconds', session_duration)
       /\ (result'.op = "player_notice" /\ result'.flag)
          => \A c \in result'.changes :
                seeds[c[1]] = Missing => seeds'[c[1]] = Half + c[2]
       /\ (result'.op = "player_adjust"
              /\ result'.effect = "clarity_up_stability_fell"
              /\ seeds["restlessness"] = Missing)
          => seeds'["restlessness"] = Half + One \div 100
       /\ (result'.op = "player_adjust"
              /\ result'.effect = "stability_up_clarity_fell"
              /\ seeds["sloth_torpor"] = Missing)
          => seeds'["sloth_torpor"] = Half + One \div 100
       /\ session_duration' # 0 => raised' = "none"]_vars

\* a notice at latency below 3 that wrote 0.51 to a diligence seed that was
\* absent, in an engine whose restlessness seed is still absent
C20_Witness ==
    /\ result.op = "player_notice"
    /\ result.flag
    /\ seeds["diligence"] = Half + One \div 100
    /\ seeds["restlessness"] = Missing
    /\ particular["prajna"] = Missing

\* C21: a tick on which is_dull and is_restless both become true together
\* (both false before it) counts one dull episode and one restless episode,
\* emits both events, and does not increment oscillation_count.
C21_SimultaneousOnsetNoOscillation ==
    [][(/\ result'.op = "tick"
        /\ ~state.is_dull /\ ~state.is_restless
        /\ state'.is_dull /\ state'.is_restless)
       => (/\ state'.clarity < DullThreshold
           /\ state'.stability < RestlessThreshold
           /\ stats'.dull_episodes = stats.dull_episodes + 1
           /\ stats'.restless_episodes = stats.restless_episodes + 1
           /\ \E i \in DOMAIN result'.events : result'.events[i] = "dull"
           /\ \E i \in DOMAIN result'.events : result'.events[i] = "restless"
           /\ stats'.oscillation_count = stats.oscillation_count)]_vars

\* the first tick of a session, on which both flags were raised together
C21_Witness ==
    /\ result.op = "tick"
    /\ elapsed_seconds = 1
    /\ state.is_dull
    /\ state.is_restless
    /\ stats.dull_episodes = 1
    /\ stats.restless_episodes = 1
    /\ stats.oscillation_count = 0

\* C22: in the terminal driver the calls on the session are serialized: no
\* interleaving of an intervention with a tick reaches a state with
\* on_object true and wandering_duration > 0, and active_hindrances is never
\* cleared while tick iterates over it (which raises RuntimeError).
C22_CallsSerialized ==
    /\ raised # "RuntimeError"
    /\ ~(phase = "running" /\ state.on_object /\ state.wandering_duration > 0)

\* the number of times the event occurs in the events a tick returned
EventCount(events, event) ==
    Cardinality({i \in DOMAIN events : events[i] = event})

\* C23: dull and restless episodes are counted on rising edges only: a tick
\* adds one to dull_episodes and emits the dullness event exactly when
\* is_dull was false before the tick and clarity < 0.4 after it, and leaves
\* dull_episodes unchanged otherwise; the same for restless_episodes with
\* stability < 0.4.
C23_EpisodesOnRisingEdges ==
    [][result'.op = "tick"
       => LET dull_onset == ~state.is_dull /\ state'.clarity < (4 * One) \div 10
              restless_onset ==
                  ~state.is_restless /\ state'.stability < (4 * One) \div 10
          IN /\ stats'.dull_episodes =
                    stats.dull_episodes + (IF dull_onset THEN 1 ELSE 0)
             /\ EventCount(result'.events, "dull") = (IF dull_onset THEN 1 ELSE 0)
             /\ stats'.restless_episodes =
                    stats.restless_episodes + (IF restless_onset THEN 1 ELSE 0)
             /\ EventCount(result'.events, "restless") =
                    (IF restless_onset THEN 1 ELSE 0)]_vars

\* the third tick of a dull spell that began on the first, counted once
C23_Witness ==
    /\ result.op = "tick"
    /\ elapsed_seconds = 3
    /\ interventions = 0
    /\ state.is_dull
    /\ stats.dull_episodes = 1
    /\ stats.clarity_time = 0

\* C24 as claimed: player_adjust("raise") changes clarity only in a state
\* where clarity < 0.4, and player_adjust("relax") changes stability only in
\* a state where stability < 0.4.
C24_AdjustOnlyBelowThreshold ==
    [][result'.op = "player_adjust"
       => /\ (result'.effect \in RaiseEffects /\ state'.clarity # state.clarity)
             => state.clarity < (4 * One) \div 10
          /\ (result'.effect \in RelaxEffects
                 /\ state'.stability # state.stability)
             => state.stability < (4 * One) \div 10]_vars

\* C24, amended: player_adjust tests the flags is_dull and is_restless as
\* the last tick left them and does not recompute them: a raise adds 0.1 to
\* clarity exactly when is_dull is set, a relax adds 0.1 to stability exactly
\* when is_restless is set, whatever the axes are now, and both flags stay
\* as they were.
C24_AdjustFollowsFlags ==
    [][result'.op = "player_adjust"
       => /\ result'.effect \in RaiseEffects
             => state'.clarity =
                    state.clarity + (IF state.is_dull THEN One \div 10 ELSE 0)
          /\ result'.effect \in RelaxEffects
             => state'.stability =
                    state.stability + (IF state.is_restless THEN One \div 10 ELSE 0)
          /\ state'.is_dull = state.is_dull
          /\ state'.is_restless = state.is_restless]_vars

\* a second raise with no tick in between, effective although the first had
\* lifted clarity to 0.4 or above
C24_Witness ==
    /\ result.op = "player_adjust"
    /\ result.effect \in {"clarity_up", "clarity_up_stability_fell"}
    /\ elapsed_seconds = 1
    /\ interventions = 2
    /\ state.is_dull
    /\ state.clarity >= (4 * One) \div 10 + One \div 10

\* C25: a hindrance that is already active is not activated again: a tick
\* changes neither its recorded strength nor its activation counter, and
\* within a session the activation count of each hindrance is at most
\* return_count + 1.
C25_NoReactivation ==
    [][/\ result'.op = "tick"
          => \A h \in ActiveSet(state) :
                /\ state'.active_hindrances[h] = state.active_hindrances[h]
                /\ stats'.hindrance_activations[h] = stats.hindrance_activations[h]
       /\ \A h \in Hindrances :
             stats'.hindrance_activations[h] <= stats'.return_count + 1]_vars

\* a tick on which a hindrance activated two ticks earlier still presses,
\* with a pressure that has changed since
C25_Witness ==
    /\ result.op = "tick"
    /\ elapsed_seconds = 3
    /\ \E h \in ActiveSet(state) :
          /\ state.active_hindrances[h] =
                PressureBase(seeds, particular, h, 1, session_duration)
          /\ PressureBase(seeds, particular, h, 3, session_duration)
                # state.active_hindrances[h]
          /\ h \in Pressing([g \in Hindrances |->
                  PressureBase(seeds, particular, g, 3, session_duration)])
          /\ stats.hindrance_activations[h] = 1

\* C26: wanders and returns alternate strictly: wander_count - return_count
\* is 0 when on_object is true and 1 when it is false, and return_count is
\* the number of recorded recovery times.
C26_WandersAndReturnsAlternate ==
    /\ stats.wander_count - stats.return_count = (IF state.on_object THEN 0 ELSE 1)
    /\ stats.return_count = Len(stats.recovery_times)

\* a second wander of the session, after one return
C26_Witness ==
    /\ ~state.on_object
    /\ stats.wander_count = 2
    /\ stats.return_count = 1

\* C27: tick() never brings attention back to the object: on_object turns
\* from false to true only in a successful player_return() (or
\* start_session), and a tick taken off the object leaves the session off
\* the object and on_object_time as it was.
C27_OnlyReturnRestoresAttention ==
    [][/\ (~state.on_object /\ state'.on_object)
          => \/ result'.op = "player_return" /\ result'.flag
             \/ phase' = "restarted"
       /\ (result'.op = "tick" /\ ~state.on_object)
          => /\ ~state'.on_object
             /\ stats'.on_object_time = stats.on_object_time]_vars

\* the second tick after a wander that the caller has not returned from
C27_Witness ==
    /\ result.op = "tick"
    /\ ~state.on_object
    /\ state.wandering_duration = 2
    /\ stats.on_object_time = 0
    /\ stats.return_count = 0

\* C28: tick(), player_return() and end_session() never modify the seed
\* store, no operation of the engine modifies the faculty store, and only
\* player_notice() and player_adjust() change seeds.
C28_TraitStoreFrame ==
    [][/\ particular' = particular
       /\ seeds' # seeds => result'.op \in {"player_notice", "player_adjust"}
       /\ (\/ result'.op \in {"tick", "player_return", "end_session"}
           \/ raised' # "none"
           \/ phase' = "restarted")
          => seeds' = seeds]_vars

\* a successful return in a session whose seeds an earlier notice changed
C28_Witness ==
    /\ result.op = "player_return"
    /\ result.flag
    /\ stats.noticing_latencies # <<>>
    /\ \E k \in SeedKeys : \A ts \in TraitStores : seeds[k] # ts.seeds[k]

\* C29 as claimed: at most one notice is rewarded per wandering episode, so
\* the number of recorded notice latencies never exceeds wander_count.
C29_OneNoticePerEpisode ==
    Len(stats.noticing_latencies) <= stats.wander_count

\* C29, amended: every player_notice() issued while off the object is
\* effective, a second one in the same episode included: it records the
\* current wandering duration as one more latency and applies the seed
\* deltas it reports.
C29_EveryNoticeOffObjectCounts ==
    [][(result'.op = "player_notice" /\ ~state.on_object)
       => /\ result'.flag
          /\ stats'.noticing_latencies =
                 Append(stats.noticing_latencies, state.wandering_duration)
          /\ state'.noticing_latency = state.wandering_duration
          /\ \E c \in result'.changes : c[1] = "mindfulness"
          /\ \A c \in result'.changes :
                 seeds'[c[1]] = ClampSeed(Get(seeds, c[1]) + c[2])]_vars

\* two notices rewarded in the one wandering episode of a session
C29_Witness ==
    /\ result.op = "player_notice"
    /\ result.flag
    /\ stats.wander_count = 1
    /\ stats.return_count = 0
    /\ stats.noticing_latencies = <<1, 2>>
    /\ seeds["mindfulness"] = Half + 2 * ((2 * One) \div 100)

\* the number of entries of the event log that record the end of a session
EndEntries(log) == Cardinality({i \in DOMAIN log : log[i][2] = <<"end">>})

====
